---- MODULE Spec2Model ----
(***************************************************************************)
(* Model of the prayer-time notifier (src/main.rs): command-line start-up, *)
(* the scheduling loop of main() and the values it computes each cycle.    *)
(*                                                                         *)
(* Time is an integer number of ticks since local midnight of date 0; one  *)
(* tick stands for one second and a calendar day is DayLen ticks long (the *)
(* day is scaled down so that the state space stays finite).  The local    *)
(* date of an instant t is t \div DayLen and its time of day t % DayLen.   *)
(* An Option<T> is a sequence of length at most one: <<>> is None and      *)
(* <<x>> is Some(x).  `samples` records the value of `now` of every cycle. *)
(***************************************************************************)
EXTENDS Integers, Sequences, FiniteSets, TLC

\* ---- bounds of the model -------------------------------------------------
DayLen == 6
MaxDate == 1
MaxCycles == 3
MaxOversleep == 1

\* ---- constants of the program -------------------------------------------
RolloverGrace == 1
Cooldown == 1

VARIABLES cli, pc, result, coords, test_now, clock, provider, known,
          now, local_date, prayers, next_prayer_info, sleep_duration,
          target, stdout, stderr, notifications, local_results, nCompute,
          nSelect, nWait, nCooldown, samples

vars == <<cli, pc, result, coords, test_now, clock, provider, known,
          now, local_date, prayers, next_prayer_info, sleep_duration,
          target, stdout, stderr, notifications, local_results, nCompute,
          nSelect, nWait, nCooldown, samples>>

\* ---- Option<T> -----------------------------------------------------------
None == <<>>

Some(x) == <<x>>

IsSome(o) == Len(o) = 1

Unwrap(o) == o[1]

UnwrapOr(o, d) == IF IsSome(o) THEN o[1] ELSE d

\* ---- calendar ------------------------------------------------------------
Dates == 0..MaxDate

DateNaive(t) == t \div DayLen

TimeOfDay(t) == t % DayLen

AndTime(date, time) == date * DayLen + time

SuccOptMutant(date) == date

SuccOpt(date) == date + 1

\* The outcomes of chrono's mapping of a local date-time to an instant.
LocalResults == {"Single", "None", "Ambiguous"}

\* LocalResult::single(): Some only for a unique instant.
SingleMutant(kind, t) == IF kind = "None" THEN None ELSE Some(t)

Single(kind, t) == IF kind = "Single" THEN Some(t) ELSE None

\* LocalResult::unwrap(): the unique instant, a panic (None here) otherwise.
LocalUnwrap(kind, t) == IF kind = "Single" THEN Some(t) ELSE None

\* ---- the five prayers ----------------------------------------------------
PrayerOrder == <<"Prayer::Fajr", "Prayer::Dhuhr", "Prayer::Asr",
                 "Prayer::Maghrib", "Prayer::Isha">>

PrayerNames == {"Fajr", "Dhuhr", "Asr", "Maghrib", "Isha"}

\* format!("{:?}", prayer): the variant's name.
DebugFormat(p) ==
    CASE p = "Prayer::Fajr" -> "Fajr"
      [] p = "Prayer::Dhuhr" -> "Dhuhr"
      [] p = "Prayer::Asr" -> "Asr"
      [] p = "Prayer::Maghrib" -> "Maghrib"
      [] p = "Prayer::Isha" -> "Isha"

\* The schedules the provider can return for a date: five instants of that
\* local date, strictly increasing in canonical order.
RECURSIVE Increasing(_, _, _)
Increasing(k, lo, hi) ==
    IF k = 0 THEN {<<>>}
    ELSE UNION {{<<x>> \o s : s \in Increasing(k - 1, x + 1, hi)} : x \in lo..hi}

Schedules(date) == Increasing(5, date * DayLen, date * DayLen + DayLen - 1)

\* prayer_times: the (Prayer, time) pairs in canonical order.
PrayerTimes(p) == [i \in 1..5 |-> <<PrayerOrder[i], p[i]>>]

\* ---- pure steps of the loop body ----------------------------------------
\* prayer_times.iter().find(|(_, time)| *time > now)
RECURSIVE FindFrom(_, _, _)
FindFrom(pt, n, i) ==
    IF i > Len(pt) THEN None
    ELSE IF pt[i][2] > n THEN Some(pt[i])
    ELSE FindFrom(pt, n, i + 1)

RECURSIVE FindFromGe(_, _, _)
FindFromGe(pt, n, i) ==
    IF i > Len(pt) THEN None
    ELSE IF pt[i][2] >= n THEN Some(pt[i])
    ELSE FindFromGe(pt, n, i + 1)

FindNextMutant(pt, n) == FindFromGe(pt, n, 1)

FindNextWrapMutant(pt, n) ==
    IF IsSome(FindFrom(pt, n, 1)) THEN FindFrom(pt, n, 1) ELSE Some(pt[1])

FindNext(pt, n) == FindFrom(pt, n, 1)

\* next_prayer_info.map(debug).unwrap_or("Fajr")
NextNameMutant(info) ==
    IF IsSome(info) THEN DebugFormat(Unwrap(info)[1]) ELSE "Isha"

NextName(info) ==
    IF IsSome(info) THEN DebugFormat(Unwrap(info)[1]) ELSE "Fajr"

\* time.format("%H:%M"): the time of day, the date is dropped.
FormatHM(t) == TimeOfDay(t)

PrayerOutput(p, info) ==
    [Fajr |-> FormatHM(p[1]), Dhuhr |-> FormatHM(p[2]), Asr |-> FormatHM(p[3]),
     Maghrib |-> FormatHM(p[4]), Isha |-> FormatHM(p[5]), next |-> NextName(info)]

\* chrono::Duration::to_std(): fails on a negative duration.
ToStd(d) == IF d >= 0 THEN Some(d) ELSE None

\* (*time - now).to_std().unwrap_or(Duration::from_secs(0))
PrayerSleepDurationMutant(time, n) == UnwrapOr(ToStd(n - time), 0)

PrayerSleepDuration(time, n) == UnwrapOr(ToStd(time - n), 0)

\* (midnight_local - now).to_std()
RolloverSleepDurationMutant(midnight_local, n) ==
    Some(UnwrapOr(ToStd(n - midnight_local), 0))

RolloverSleepDuration(midnight_local, n) == ToStd(midnight_local - n)

\* What calculate() can return for a date.
ProviderResults(date) ==
    {[ok |-> FALSE, times |-> <<>>]}
    \cup {[ok |-> TRUE, times |-> s] : s \in Schedules(date)}

\* Is the loop left after this cycle?
BreakAfterCycleMutant(tn) == ~IsSome(tn)

BreakAlwaysMutant(tn) == TRUE

BreakAfterCycle(tn) == IsSome(tn)

\* ---- outcome of the process ---------------------------------------------
ExitCode(r) ==
    CASE r = "Ok" -> 0
      [] r = "Panic" -> 101
      [] OTHER -> 1

Fail(kind) == pc' = "failed" /\ result' = kind

\* The `?` after show(): an error ends main().
NotifyOutcomeMutant(shown) == pc' = "cooldown" /\ result' = result

NotifyOutcomeSkipMutant(shown) ==
    IF shown THEN pc' = "cooldown" /\ result' = result
    ELSE pc' = "loopend" /\ result' = result

NotifyOutcome(shown) ==
    IF shown THEN pc' = "cooldown" /\ result' = result
    ELSE Fail("NotificationError")

\* if test_now.is_some() { eprintln!("[TEST MODE] ...") }
EprintlnMutant(tn, err, line) == Append(err, line)

Eprintln(tn, err, line) == IF IsSome(tn) THEN Append(err, line) ELSE err

\* The lines one cycle writes to standard output.
StatusLinesMutant(record) == <<record, record>>

StatusLines(record) == <<record>>

\* ---- initial state -------------------------------------------------------
CityArgs == {"absent", "known", "unknown"}

CoordinateArgs == {"absent", "valid", "malformed"}

TestAtArgs == {<<"absent", 0>>, <<"malformed", 0>>}
              \cup {<<"time", t>> : t \in 0..(DayLen - 1)}

Init ==
    /\ cli \in [city : CityArgs, coordinate : CoordinateArgs, test_at : TestAtArgs]
    /\ pc = "start"
    /\ result = "running"
    /\ coords = FALSE
    /\ test_now = None
    /\ clock \in 0..(DayLen - 1)
    /\ provider = [d \in Dates |-> [ok |-> FALSE, times |-> <<>>]]
    /\ known = {}
    /\ now = 0
    /\ local_date = 0
    /\ prayers = <<>>
    /\ next_prayer_info = None
    /\ sleep_duration = 0
    /\ target = 0
    /\ stdout = <<>>
    /\ stderr = <<>>
    /\ notifications = <<>>
    /\ local_results = <<>>
    /\ nCompute = 0
    /\ nSelect = 0
    /\ nWait = 0
    /\ nCooldown = 0
    /\ samples = <<>>

\* ---- start-up ------------------------------------------------------------
\* let coords = if let Some(city) ... else if let Some(coordinate_str) ...
ResolveLocationMutant ==
    /\ pc = "start"
    /\ IF cli.city = "absent" /\ cli.coordinate = "absent"
       THEN coords' = coords /\ Fail("ConfigurationError")
       ELSE coords' = TRUE /\ pc' = "testat" /\ result' = result
    /\ UNCHANGED <<samples, cli, test_now, clock, provider, known, now, local_date,
                   prayers, next_prayer_info, sleep_duration, target, stdout,
                   stderr, notifications, local_results, nCompute, nSelect,
                   nWait, nCooldown>>

ResolveLocation ==
    /\ pc = "start"
    /\ IF cli.city # "absent"
       THEN IF cli.city = "known"
            THEN coords' = TRUE /\ pc' = "testat" /\ result' = result
            ELSE coords' = coords /\ Fail("LookupError")
       ELSE IF cli.coordinate # "absent"
            THEN IF cli.coordinate = "valid"
                 THEN coords' = TRUE /\ pc' = "testat" /\ result' = result
                 ELSE coords' = coords /\ Fail("ConfigurationError")
            ELSE coords' = coords /\ Fail("ConfigurationError")
    /\ UNCHANGED <<samples, cli, test_now, clock, provider, known, now, local_date,
                   prayers, next_prayer_info, sleep_duration, target, stdout,
                   stderr, notifications, local_results, nCompute, nSelect,
                   nWait, nCooldown>>

\* let test_now = if let Some(test_at_str) = &cli.test_at ... else None
ParseTestAt ==
    /\ pc = "testat"
    /\ IF cli.test_at[1] = "absent"
       THEN /\ test_now' = None /\ pc' = "compute" /\ result' = result
            /\ local_results' = local_results
       ELSE IF cli.test_at[1] = "malformed"
       THEN /\ test_now' = test_now /\ Fail("ConfigurationError")
            /\ local_results' = local_results
       ELSE \E kind \in LocalResults :
              LET today == DateNaive(clock)
                  naive_dt == AndTime(today, cli.test_at[2])
                  r == Single(kind, naive_dt)
              IN /\ local_results' = Append(local_results, kind)
                 /\ IF IsSome(r)
                    THEN test_now' = r /\ pc' = "compute" /\ result' = result
                    ELSE test_now' = test_now /\ Fail("AmbiguousLocalTime")
    /\ UNCHANGED <<samples, cli, coords, clock, provider, known, now, local_date,
                   prayers, next_prayer_info, sleep_duration, target, stdout,
                   stderr, notifications, nCompute, nSelect, nWait, nCooldown>>

\* ---- one cycle of the loop ----------------------------------------------
\* now, local_date and PrayerSchedule::new()...calculate()?
ComputeSchedule ==
    /\ pc = "compute"
    /\ nCompute < MaxCycles
    /\ LET n == UnwrapOr(test_now, clock)
           d == DateNaive(n)
       IN /\ d <= MaxDate
          /\ now' = n
          /\ local_date' = d
          /\ nCompute' = nCompute + 1
          /\ samples' = Append(samples, n)
          /\ \E r \in ProviderResults(d) :
               /\ d \in known => r = provider[d]
               /\ provider' = [provider EXCEPT ![d] = r]
               /\ known' = known \cup {d}
               /\ IF r.ok
                  THEN prayers' = r.times /\ pc' = "select" /\ result' = result
                  ELSE prayers' = prayers /\ Fail("CalculationError")
    /\ UNCHANGED <<cli, coords, test_now, clock, next_prayer_info,
                   sleep_duration, target, stdout, stderr, notifications,
                   local_results, nSelect, nWait, nCooldown>>

\* let next_prayer_info = prayer_times.iter().find(...)
SelectNextEventMutant ==
    /\ pc = "select"
    /\ next_prayer_info' = FindNext(PrayerTimes(prayers), clock)
    /\ nSelect' = nSelect + 1
    /\ pc' = "emit"
    /\ UNCHANGED <<samples, cli, result, coords, test_now, clock, provider, known, now,
                   local_date, prayers, sleep_duration, target, stdout, stderr,
                   notifications, local_results, nCompute, nWait, nCooldown>>

SelectNextEvent ==
    /\ pc = "select"
    /\ next_prayer_info' = FindNext(PrayerTimes(prayers), now)
    /\ nSelect' = nSelect + 1
    /\ pc' = "emit"
    /\ UNCHANGED <<samples, cli, result, coords, test_now, clock, provider, known, now,
                   local_date, prayers, sleep_duration, target, stdout, stderr,
                   notifications, local_results, nCompute, nWait, nCooldown>>

\* serde_json::to_writer(&mut handle, &output_struct)?; writeln!(..)?
EmitStatus ==
    /\ pc = "emit"
    /\ \E written \in BOOLEAN :
         IF written
         THEN /\ stdout' = stdout \o StatusLines(PrayerOutput(prayers, next_prayer_info))
              /\ pc' = "duration" /\ result' = result
         ELSE stdout' = stdout /\ Fail("IoError")
    /\ UNCHANGED <<samples, cli, coords, test_now, clock, provider, known, now,
                   local_date, prayers, next_prayer_info, sleep_duration,
                   target, stderr, notifications, local_results, nCompute,
                   nSelect, nWait, nCooldown>>

\* if let Some((prayer, time)) = next_prayer_info { sleep_duration; eprintln }
PrayerBranchMutant ==
    /\ pc = "duration"
    /\ IsSome(next_prayer_info)
    /\ LET time == Unwrap(next_prayer_info)[2]
       IN /\ target' = time
          /\ sleep_duration' = PrayerSleepDuration(time, now)
    /\ stderr' = Eprintln(test_now, stderr, "prayer")
    /\ pc' = "notify"
    /\ UNCHANGED <<samples, cli, result, coords, test_now, clock, provider, known, now,
                   local_date, prayers, next_prayer_info, stdout,
                   notifications, local_results, nCompute, nSelect, nWait,
                   nCooldown>>

PrayerBranch ==
    /\ pc = "duration"
    /\ IsSome(next_prayer_info)
    /\ LET time == Unwrap(next_prayer_info)[2]
       IN /\ target' = time
          /\ sleep_duration' = PrayerSleepDuration(time, now)
    /\ stderr' = Eprintln(test_now, stderr, "prayer")
    /\ pc' = "sleep"
    /\ UNCHANGED <<samples, cli, result, coords, test_now, clock, provider, known, now,
                   local_date, prayers, next_prayer_info, stdout,
                   notifications, local_results, nCompute, nSelect, nWait,
                   nCooldown>>

\* else { tomorrow; midnight_local; sleep_duration = (..).to_std()?; eprintln }
RolloverBranch ==
    /\ pc = "duration"
    /\ ~IsSome(next_prayer_info)
    /\ \E kind \in LocalResults :
         LET tomorrow == SuccOpt(local_date)
             midnight_local == LocalUnwrap(kind, AndTime(tomorrow, RolloverGrace))
         IN /\ local_results' = Append(local_results, kind)
            /\ IF ~IsSome(midnight_local)
               THEN /\ Fail("Panic")
                    /\ UNCHANGED <<target, sleep_duration, stderr>>
               ELSE LET d == RolloverSleepDuration(Unwrap(midnight_local), now)
                    IN IF ~IsSome(d)
                       THEN /\ Fail("OutOfRangeError")
                            /\ UNCHANGED <<target, sleep_duration, stderr>>
                       ELSE /\ target' = Unwrap(midnight_local)
                            /\ sleep_duration' = Unwrap(d)
                            /\ stderr' = Eprintln(test_now, stderr, "rollover")
                            /\ pc' = "sleep" /\ result' = result
    /\ UNCHANGED <<samples, cli, coords, test_now, clock, provider, known, now,
                   local_date, prayers, next_prayer_info, stdout,
                   notifications, nCompute, nSelect, nWait, nCooldown>>

\* thread::sleep(sleep_duration): returns no earlier than asked.
Sleep ==
    /\ pc = "sleep"
    /\ \E over \in 0..MaxOversleep : clock' = clock + sleep_duration + over
    /\ nWait' = nWait + 1
    /\ pc' = IF IsSome(next_prayer_info) THEN "notify" ELSE "loopend"
    /\ UNCHANGED <<samples, cli, result, coords, test_now, provider, known, now,
                   local_date, prayers, next_prayer_info, sleep_duration,
                   target, stdout, stderr, notifications, local_results,
                   nCompute, nSelect, nCooldown>>

\* Notification::new().summary(..).body(..).show()?
Notify ==
    /\ pc = "notify"
    /\ \E shown \in BOOLEAN :
         /\ notifications' = Append(notifications,
                [prayer |-> DebugFormat(Unwrap(next_prayer_info)[1]),
                 cycle |-> nCompute, shown |-> shown])
         /\ NotifyOutcome(shown)
    /\ UNCHANGED <<samples, cli, coords, test_now, clock, provider, known, now,
                   local_date, prayers, next_prayer_info, sleep_duration,
                   target, stdout, stderr, local_results, nCompute, nSelect,
                   nWait, nCooldown>>

\* thread::sleep(Duration::from_secs(1))
CooldownSleep ==
    /\ pc = "cooldown"
    /\ \E over \in 0..MaxOversleep : clock' = clock + Cooldown + over
    /\ nCooldown' = nCooldown + 1
    /\ pc' = "loopend"
    /\ UNCHANGED <<samples, cli, result, coords, test_now, provider, known, now,
                   local_date, prayers, next_prayer_info, sleep_duration,
                   target, stdout, stderr, notifications, local_results,
                   nCompute, nSelect, nWait>>

\* if test_now.is_some() { break; } ... Ok(())
LoopEnd ==
    /\ pc = "loopend"
    /\ IF BreakAfterCycle(test_now)
       THEN pc' = "done" /\ result' = "Ok"
       ELSE pc' = "compute" /\ result' = result
    /\ UNCHANGED <<samples, cli, coords, test_now, clock, provider, known, now,
                   local_date, prayers, next_prayer_info, sleep_duration,
                   target, stdout, stderr, notifications, local_results,
                   nCompute, nSelect, nWait, nCooldown>>

Next ==
    \/ ResolveLocation
    \/ ParseTestAt
    \/ ComputeSchedule
    \/ SelectNextEvent
    \/ EmitStatus
    \/ PrayerBranch
    \/ RolloverBranch
    \/ Sleep
    \/ Notify
    \/ CooldownSleep
    \/ LoopEnd

Spec == Init /\ [][Next]_vars

\* ---- type correctness ----------------------------------------------------
TypeOK ==
    /\ pc \in {"start", "testat", "compute", "select", "emit", "duration",
               "sleep", "notify", "cooldown", "loopend", "done", "failed"}
    /\ Len(test_now) <= 1
    /\ Len(next_prayer_info) <= 1
    /\ sleep_duration \in Int
    /\ clock \in Nat

\* ---- properties ----------------------------------------------------------
Max(a, b) == IF a >= b THEN a ELSE b

CanonicalNames == <<"Fajr", "Dhuhr", "Asr", "Maghrib", "Isha">>

\* The current cycle has selected its next event.
Selected == nCompute > 0 /\ nSelect = nCompute

\* The entries of the current schedule that lie strictly after `now`.
Later == {i \in 1..5 : prayers[i] > now}

Delivered == {k \in 1..Len(notifications) : notifications[k].shown}

\* C1: the selected event is the prayer with the least instant strictly
\* greater than `now` (an instant equal to `now` is not selected); with no
\* such instant the event is Rollover, and its target is the first second of
\* the date following the date of `now`.
C1_SelectNextEvent ==
    /\ Selected =>
         IF Later # {}
         THEN /\ IsSome(next_prayer_info)
              /\ \E i \in Later :
                   /\ Unwrap(next_prayer_info) = <<PrayerOrder[i], prayers[i]>>
                   /\ \A j \in Later : prayers[i] <= prayers[j]
         ELSE ~IsSome(next_prayer_info)
    /\ (pc = "sleep" /\ ~IsSome(next_prayer_info)) =>
         /\ DateNaive(target) = DateNaive(now) + 1
         /\ TimeOfDay(target) = RolloverGrace

C1_Witness ==
    /\ Selected
    /\ IsSome(next_prayer_info)
    /\ \E i \in 1..5 : prayers[i] = now /\ Unwrap(next_prayer_info)[2] > now

C3_SingleShot ==
    IsSome(test_now) =>
      /\ nCompute <= 1
      /\ Len(stdout) <= 1
      /\ nWait <= 1
      /\ Len(notifications) <= 1
      /\ pc = "done" =>
           /\ nCompute = 1
           /\ Len(stdout) = 1
           /\ nWait = 1
           /\ Cardinality(Delivered) = (IF IsSome(next_prayer_info) THEN 1 ELSE 0)
           /\ ExitCode(result) = 0

C3_Witness ==
    /\ IsSome(test_now)
    /\ pc = "done"
    /\ IsSome(next_prayer_info)
    /\ Cardinality(Delivered) = 1

\* C4: without an override instant the scheduler never terminates on its
\* own (it stops only by a fatal error), and the end of every cycle leads to
\* another ComputeSchedule.
C4_ContinuousNeverExits ==
    [][/\ pc' = "done" => IsSome(test_now')
       /\ (pc = "loopend" /\ ~IsSome(test_now)) => pc' = "compute"]_vars

C4_Witness ==
    /\ ~IsSome(test_now)
    /\ pc = "select"
    /\ nCompute = 3

\* C5: a notification is delivered only in a cycle whose selected event is a
\* Prayer, an instant strictly after `now`; a Rollover cycle delivers none
\* (a single-shot run after Isha ends with zero notifications).
C5_NotifyOnlyForPrayer ==
    /\ (Selected /\ \E k \in 1..Len(notifications) : notifications[k].cycle = nCompute)
         => /\ IsSome(next_prayer_info)
            /\ Unwrap(next_prayer_info)[2] > now
    /\ (pc = "done" /\ Later = {}) => notifications = <<>>

C5_Witness ==
    /\ pc = "done"
    /\ ~IsSome(next_prayer_info)
    /\ nWait = 1
    /\ notifications = <<>>

\* C6: a cycle that reaches the wait has written exactly one status record,
\* after its next event was selected and before the wait began; no cycle
\* writes two records and no cycle waits without having written.
C6_OneStatusBeforeWait ==
    /\ Len(stdout) <= nSelect
    /\ nSelect <= nCompute
    /\ nWait <= Len(stdout)
    /\ pc = "sleep" =>
         /\ Len(stdout) = nCompute
         /\ nSelect = nCompute
         /\ nWait = nCompute - 1

C6_Witness ==
    /\ pc = "sleep"
    /\ nCompute = 2
    /\ Len(stdout) = 2

\* C7: the `next` field of every status record is one of the five prayer
\* names: the name of the selected prayer, and "Fajr" when the selected
\* event is Rollover.
C7_NextField ==
    /\ \A k \in 1..Len(stdout) : stdout[k].next \in PrayerNames
    /\ (Selected /\ Len(stdout) = nCompute) =>
         IF IsSome(next_prayer_info)
         THEN \E i \in 1..5 :
                /\ Unwrap(next_prayer_info)[1] = PrayerOrder[i]
                /\ stdout[Len(stdout)].next = CanonicalNames[i]
         ELSE stdout[Len(stdout)].next = CanonicalNames[1]

C7_Witness ==
    /\ Selected
    /\ Len(stdout) = nCompute
    /\ ~IsSome(next_prayer_info)
    /\ stdout[Len(stdout)].next = "Fajr"

\* C8: start-up accepts exactly one of --city and --coordinate; with neither
\* or with both it fails with a configuration error and the loop is never
\* entered.
C8_ExactlyOneLocation ==
    ((cli.city = "absent") = (cli.coordinate = "absent")) =>
        \/ pc = "start"
        \/ pc = "failed" /\ result = "ConfigurationError" /\ nCompute = 0

\* A failure of the provider, of the notifier or of the local-time mapping
\* has been observed.
FailureObserved ==
    \/ \E d \in known : ~provider[d].ok
    \/ \E k \in 1..Len(notifications) : ~notifications[k].shown
    \/ \E k \in 1..Len(local_results) : local_results[k] # "Single"

\* C9: a fatal error is terminal where it occurs: after a calculation,
\* notification or ambiguous-local-time failure the process takes no further
\* step, in either mode, and its exit is not a success exit.
C9_FatalIsTerminal ==
    [][/\ pc # "failed"
       /\ FailureObserved' => (pc' = "failed" /\ ExitCode(result') # 0)]_vars

C9_Witness ==
    /\ pc = "failed"
    /\ result = "NotificationError"
    /\ ~IsSome(test_now)
    /\ nCompute = 2

\* C10: when the local date-time of the override or of the Rollover target
\* maps to no instant or to more than one, the process fails; it never goes
\* on with a candidate instant.
C10_AmbiguousLocalTimeFails ==
    /\ (\E k \in 1..Len(local_results) : local_results[k] # "Single") =>
         /\ pc = "failed"
         /\ result \in {"AmbiguousLocalTime", "Panic"}
    /\ IsSome(test_now) => local_results[1] = "Single"

C10_Witness ==
    /\ pc = "failed"
    /\ result = "Panic"
    /\ local_results[Len(local_results)] = "Ambiguous"

\* The start-up input is one that start-up rejects: no location flag, an
\* unknown city, a malformed coordinate, a malformed override or an override
\* whose local date-time is not a unique instant.
StartupRejects ==
    \/ cli.city = "unknown"
    \/ cli.city = "absent" /\ cli.coordinate \in {"absent", "malformed"}
    \/ cli.test_at[1] = "malformed"
    \/ /\ cli.test_at[1] = "time"
       /\ local_results # <<>>
       /\ local_results[1] # "Single"

\* C11: every start-up failure happens before any schedule computation and
\* before anything is written to standard output: such a run has computed
\* zero schedules and written zero status records.
C11_StartupFailsBeforeLoop ==
    /\ StartupRejects =>
         /\ pc \in {"start", "testat", "failed"}
         /\ nCompute = 0
         /\ stdout = <<>>
    /\ (pc = "failed" /\ result \in {"ConfigurationError", "LookupError",
                                     "AmbiguousLocalTime"}) =>
         /\ nCompute = 0
         /\ stdout = <<>>

C11_Witness ==
    /\ pc = "failed"
    /\ result = "LookupError"
    /\ cli.coordinate = "valid"
    /\ nCompute = 0
    /\ stdout = <<>>

\* The notification attempts of the current cycle.
ThisCycle == {k \in 1..Len(notifications) : notifications[k].cycle = nCompute}

\* C12: a cycle whose selected event is a Prayer and whose delivery does not
\* fail delivers exactly one notification, naming that prayer, and only
\* after the cycle's wait has completed.
C12_OneNotificationAfterWait ==
    /\ \A j, k \in 1..Len(notifications) :
         notifications[j].cycle = notifications[k].cycle => j = k
    /\ (Selected /\ ThisCycle # {}) =>
         /\ nWait = nCompute
         /\ \E i \in 1..5 :
              /\ Unwrap(next_prayer_info) = <<PrayerOrder[i], prayers[i]>>
              /\ \A k \in ThisCycle : notifications[k].prayer = CanonicalNames[i]
    /\ (Selected /\ IsSome(next_prayer_info)
          /\ pc \in {"cooldown", "loopend", "done", "compute"}) =>
         /\ Cardinality(ThisCycle) = 1
         /\ \A k \in ThisCycle : notifications[k].shown

C12_Witness ==
    /\ pc = "cooldown"
    /\ nCompute = 2
    /\ nWait = 2
    /\ Cardinality(Delivered) = 2
    /\ notifications[2].prayer = "Isha"

\* C13: diagnostic lines go to standard error only in single-shot mode: a
\* continuous run writes none, and the one cycle of a single-shot run writes
\* exactly one, before its wait.
C13_DiagnosticsOnlySingleShot ==
    /\ ~IsSome(test_now) => stderr = <<>>
    /\ Len(stderr) <= 1
    /\ Len(stderr) <= nCompute
    /\ (IsSome(test_now) /\ pc = "sleep") => (Len(stderr) = 1 /\ nWait = 0)
    /\ (IsSome(test_now) /\ nWait >= 1) => Len(stderr) = 1

C13_Witness ==
    /\ IsSome(test_now)
    /\ pc = "sleep"
    /\ ~IsSome(next_prayer_info)
    /\ stderr = <<"rollover">>

\* The loop body is past calculate() in the current cycle.
InCycle == pc \in {"select", "emit", "duration", "sleep", "notify",
                   "cooldown", "loopend", "done"}

\* Everything the current cycle has produced so far was derived from the one
\* sample `now` and from the schedule of the date of that sample.
UsesOneSample ==
    InCycle =>
      /\ local_date = DateNaive(now)
      /\ local_date \in known
      /\ provider[local_date].ok
      /\ prayers = provider[local_date].times
      /\ pc # "select" =>
           IF IsSome(next_prayer_info)
           THEN \E i \in 1..5 :
                  /\ Unwrap(next_prayer_info) = <<PrayerOrder[i], prayers[i]>>
                  /\ prayers[i] > now
                  /\ \A j \in 1..(i - 1) : prayers[j] <= now
           ELSE \A i \in 1..5 : prayers[i] <= now
      /\ pc \notin {"select", "emit"} =>
           LET rec == stdout[Len(stdout)]
           IN <<rec.Fajr, rec.Dhuhr, rec.Asr, rec.Maghrib, rec.Isha>>
                = [i \in 1..5 |-> prayers[i] % DayLen]
      /\ pc \in {"sleep", "notify", "cooldown", "loopend", "done"} =>
           /\ sleep_duration = target - now
           /\ target = IF IsSome(next_prayer_info)
                       THEN Unwrap(next_prayer_info)[2]
                       ELSE (local_date + 1) * DayLen + RolloverGrace

\* C14: a cycle samples `now` once, at its top; its schedule date, its
\* selection, its status record and its wait all use that sample, and its
\* schedule is the one computed in that cycle for the date of the sample.
C14_OneSamplePerCycle ==
    [][/\ UsesOneSample'
       /\ pc # "compute" =>
            (now' = now /\ local_date' = local_date /\ prayers' = prayers)
       /\ pc = "compute" =>
            /\ now' = (IF IsSome(test_now) THEN Unwrap(test_now) ELSE clock)
            /\ nCompute' = nCompute + 1]_vars

C14_Witness ==
    /\ ~IsSome(test_now)
    /\ pc = "sleep"
    /\ nCompute = 2
    /\ local_date = 1
    /\ IsSome(next_prayer_info)
    /\ DateNaive(target) = 1

\* ---- properties of a continuous run over several cycles ------------------
\* The provider's answer for the date of cycle c.
SchedAt(c) == provider[DateNaive(samples[c])]

\* The prayer instants that lay strictly after `now` when cycle c started.
PendingAt(c) ==
    IF SchedAt(c).ok
    THEN {SchedAt(c).times[i] : i \in {j \in 1..5 : SchedAt(c).times[j] > samples[c]}}
    ELSE {}

NameIndex(name) ==
    CASE name = "Fajr" -> 1
      [] name = "Dhuhr" -> 2
      [] name = "Asr" -> 3
      [] name = "Maghrib" -> 4
      [] name = "Isha" -> 5

\* The instant of the prayer that notification k names.
NotifiedInstant(k) ==
    SchedAt(notifications[k].cycle).times[NameIndex(notifications[k].prayer)]

\* The instants notified in the cycles before cycle c.
NotifiedBefore(c) ==
    {NotifiedInstant(k) : k \in {j \in Delivered : notifications[j].cycle < c}}

\* Cycle c has selected Rollover.
RolloverCycle(c) ==
    /\ (c < nCompute \/ nSelect = nCompute)
    /\ SchedAt(c).ok
    /\ \A i \in 1..5 : SchedAt(c).times[i] <= samples[c]

\* A prayer that some cycle saw ahead of it is notified before a cycle
\* selects Rollover for its date and before a later date's schedule is
\* computed.
NoPrayerSkipped ==
    \A c \in 1..Len(samples) :
       SchedAt(c).ok =>
         LET today == DateNaive(samples[c])
             rolled == RolloverCycle(c)
             notified == NotifiedBefore(c)
         IN  \A b \in 1..c : \A p \in PendingAt(b) :
                (\/ DateNaive(p) < today
                 \/ DateNaive(p) = today /\ rolled)
                  => p \in notified

\* The prayers of a date are notified in canonical order.
InCanonicalOrder ==
    \A j, k \in Delivered :
       (j < k /\ DateNaive(NotifiedInstant(j)) = DateNaive(NotifiedInstant(k)))
         => NotifiedInstant(j) < NotifiedInstant(k)

\* Every cycle after the first started strictly before each prayer instant
\* that follows the one the cycle before it waited for.
OnTime ==
    \A c \in 1..(Len(samples) - 1) : \A p \in PendingAt(c) :
       (\E q \in PendingAt(c) : q < p) => samples[c + 1] < p

\* C15 (as claimed): in a continuous run, where the clock never goes back
\* and no wait returns early, no prayer is skipped and the prayers of a date
\* are notified in canonical order.
C15_NoPrayerSkipped ==
    ~IsSome(test_now) => (NoPrayerSkipped /\ InCanonicalOrder)

\* C15 (amended): the same, provided every wake-up and the cooldown after it
\* end strictly before the instant of the next prayer.
C15_NoPrayerSkippedOnTime ==
    (~IsSome(test_now) /\ OnTime) => (NoPrayerSkipped /\ InCanonicalOrder)

C15_Witness ==
    /\ ~IsSome(test_now)
    /\ OnTime
    /\ Len(samples) = 3
    /\ DateNaive(samples[3]) = 1
    /\ Cardinality(Delivered) = 2
    /\ Cardinality(PendingAt(1)) = 2

\* C16: in a continuous run the same prayer of the same date is never
\* notified twice: every cycle after a notification starts at or after the
\* notified instant, so the strict comparison never selects it again.
C16_NeverNotifiedTwice ==
    (~IsSome(test_now) /\ notifications # <<>>) =>
      \A k \in 1..Len(notifications) :
         notifications[k].shown =>
           LET p == NotifiedInstant(k)
           IN  /\ \A j \in 1..(k - 1) :
                    notifications[j].shown => NotifiedInstant(j) # p
               /\ \A c \in (notifications[k].cycle + 1)..Len(samples) :
                    /\ samples[c] >= p
                    /\ SchedAt(c).ok =>
                         \A i \in 1..5 :
                            SchedAt(c).times[i] > samples[c]
                              => SchedAt(c).times[i] # p

C16_Witness ==
    /\ ~IsSome(test_now)
    /\ Cardinality(Delivered) = 2
    /\ Len(samples) = 3
    /\ DateNaive(samples[3]) = 0
    /\ pc = "select"

\* C17: in a continuous run the cycle after a completed Rollover wait
\* computes its schedule for a date strictly later than the date of the
\* Rollover cycle, so a date has at most one Rollover cycle.
C17_RolloverAdvancesDate ==
    (~IsSome(test_now) /\ Len(samples) >= 2) =>
      \A c \in 1..(Len(samples) - 1) :
         RolloverCycle(c) =>
           /\ DateNaive(samples[c + 1]) > DateNaive(samples[c])
           /\ \A b \in (c + 1)..Len(samples) :
                DateNaive(samples[b]) = DateNaive(samples[c]) => ~RolloverCycle(b)

C17_Witness ==
    /\ ~IsSome(test_now)
    /\ Len(samples) = 2
    /\ RolloverCycle(1)
    /\ DateNaive(samples[1]) = 0
    /\ DateNaive(samples[2]) = 1
    /\ pc = "select"

\* C18: in every cycle that selects Rollover the target is strictly after
\* `now`: the wait is at least one second and at most a day and a second,
\* and its conversion to a non-negative duration never fails.
C18_RolloverWaitRange ==
    /\ (pc \in {"sleep", "loopend"} /\ ~IsSome(next_prayer_info)) =>
         /\ target > now
         /\ sleep_duration >= RolloverGrace
         /\ sleep_duration <= DayLen + RolloverGrace
    /\ (pc = "failed" /\ ~IsSome(next_prayer_info) /\ Selected
          /\ Len(stdout) = nCompute) => result = "Panic"

C18_Witness ==
    /\ pc = "sleep"
    /\ ~IsSome(next_prayer_info)
    /\ sleep_duration = RolloverGrace + 1
    /\ TimeOfDay(now) = DayLen - 1

====
